---- MODULE Spec2Model ----
(***************************************************************************)
(* Model of the concurrent log analyzer (src/main.go).                     *)
(*                                                                         *)
(* A Go string is a sequence of one-character strings, so that             *)
(* strings.Split, strings.TrimSpace and strconv.ParseInt are computed on   *)
(* the characters as the library computes them.  A time.Time is the tuple  *)
(* <<year, month, day, hour, minute, second, nanosecond>> (UTC), compared  *)
(* lexicographically; the zero value of time.Time is 1 January of year 1.  *)
(* The iteration order of a Go map is unspecified: every place             *)
(* where the code ranges over a map takes the order as a parameter that    *)
(* the calling action chooses among all permutations of the keys.          *)
(***************************************************************************)
EXTENDS Integers, Sequences, FiniteSets, TLC

VARIABLES
    logPaths,      \* analyzeLogFiles: the argument, a sequence of paths
    pcMain,        \* analyzeLogFiles: position of the calling goroutine
    spawned,       \* analyzeLogFiles: iterations done of the launch loop
    received,      \* analyzeLogFiles: iterations done of the receive loop
    logAnalyses,   \* analyzeLogFiles: the collected summaries
    chanClosed,    \* logAnalysisChan has been closed
    waitGroup,     \* counter of the package-level sync.WaitGroup
    pcTask,        \* analyzeLogFile: position of the goroutine of each path
    summary,       \* analyzeLogFile: the local logAnalysis of each goroutine
    rangeOrder,    \* analyzeTopFiveLogMessages: the order in which the range
                   \* over rankedLogMessages visits its keys
    result,        \* analyzeLogFiles: the returned LogAnalysis
    run,           \* number of the current call of analyzeLogFiles
    firstResult,   \* the LogAnalysis returned by the first call
    callPc,        \* position of a direct call of one function
    callArg,       \* argument of the direct call
    callRet        \* value returned by the direct call

vars == <<logPaths, pcMain, spawned, received, logAnalyses, chanClosed,
          waitGroup, pcTask, summary, rangeOrder, result, run, firstResult,
          callPc, callArg, callRet>>

dispatchVars == <<logPaths, pcMain, spawned, received, logAnalyses, chanClosed,
                  waitGroup, pcTask, summary, rangeOrder, result, run,
                  firstResult>>

callVars == <<callPc, callArg, callRet>>

----------------------------------------------------------------------------
(* Bounds of the model. *)

\* longest list of paths handed to analyzeLogFiles
MaxFiles == 2

\* longest message text drawn for a direct call of parseLogMessage
MaxMsgLen == 3

\* longest record list drawn for a direct call of getTopFiveLogMessages
MaxRecords == 4

\* number of calls of analyzeLogFiles on the same paths in one process
MaxRuns == 2

----------------------------------------------------------------------------
(* Program constants. *)

\* make([]string, 5) and the "maxMessages = 5" cuts
TopN == 5

\* bitSize argument of strconv.ParseInt(..., 0, 16)
IntBits == 16

\* the zero value of time.Time: January 1, year 1, 00:00:00.000000000 UTC
ZeroTime == <<1, 1, 1, 0, 0, 0, 0>>

----------------------------------------------------------------------------
(* Strings. *)

Range(s) == {s[i] : i \in 1..Len(s)}

\* unicode.IsSpace on the characters the model uses
IsSpace(c) == c \in {" ", "\t", "\r", "\n"}

\* strings.TrimSpace
TrimSpace(s) ==
    LET keep == {i \in 1..Len(s) : ~IsSpace(s[i])}
    IN  IF keep = {} THEN <<>>
        ELSE LET lo == CHOOSE i \in keep : \A j \in keep : i <= j
                 hi == CHOOSE i \in keep : \A j \in keep : j <= i
             IN  SubSeq(s, lo, hi)

\* strings.Split(s, sep) for a one-character separator: always at least one
\* part, Split("", sep) = [""]
RECURSIVE Split(_, _)
Split(s, sep) ==
    LET at == {i \in 1..Len(s) : s[i] = sep}
    IN  IF at = {} THEN <<s>>
        ELSE LET i == CHOOSE k \in at : \A j \in at : k <= j
             IN  <<SubSeq(s, 1, i - 1)>> \o Split(SubSeq(s, i + 1, Len(s)), sep)

DigitVal(c) ==
    CASE c = "0" -> 0 [] c = "1" -> 1 [] c = "2" -> 2 [] c = "3" -> 3
      [] c = "4" -> 4 [] c = "5" -> 5 [] c = "6" -> 6 [] c = "7" -> 7
      [] c = "8" -> 8 [] c = "9" -> 9 [] OTHER -> 99

RECURSIVE DigitsValue(_, _)
DigitsValue(s, base) ==
    IF s = <<>> THEN 0
    ELSE DigitsValue(SubSeq(s, 1, Len(s) - 1), base) * base + DigitVal(s[Len(s)])

\* strconv.ParseInt(s, 0, 16) on signs and decimal digits: base 0 reads a
\* leading "0" as the octal prefix; a value outside the 16-bit range is an
\* error.  (The prefixes 0x, 0b, 0o and the underscore do not occur in the
\* lines of the model.)
ParseInt(s) ==
    LET signed == s # <<>> /\ s[1] \in {"+", "-"}
        body   == IF signed THEN Tail(s) ELSE s
        base   == IF Len(body) > 1 /\ body[1] = "0" THEN 8 ELSE 10
        syntax == body # <<>> /\ \A i \in 1..Len(body) : DigitVal(body[i]) < base
        mag    == DigitsValue(body, base)
        val    == IF signed /\ s[1] = "-" THEN 0 - mag ELSE mag
        lim    == 2 ^ (IntBits - 1)
    IN  IF ~syntax THEN [err |-> TRUE, val |-> 0]
        ELSE IF val < 0 - lim THEN [err |-> TRUE, val |-> 0 - lim]
        ELSE IF val > lim - 1 THEN [err |-> TRUE, val |-> lim - 1]
        ELSE [err |-> FALSE, val |-> val]

----------------------------------------------------------------------------
(* parseLogMessage. *)

\* the zero value of LogMessage
ZeroLogMessage ==
    [timestamp |-> <<>>, severity |-> <<>>, module |-> <<>>,
     function |-> <<>>, lineNumber |-> 0, message |-> <<>>]

parseLogMessage(logRow) ==
    LET leftParts == Split(logRow, "|")
    IN  IF Len(leftParts) # 3
        THEN [err |-> TRUE, msg |-> ZeroLogMessage]
        ELSE
        LET m1 == [ZeroLogMessage EXCEPT !.timestamp = TrimSpace(leftParts[1]),
                                         !.severity = TrimSpace(leftParts[2])]
            rightParts == Split(leftParts[3], ":")
        IN  IF m1.severity = <<>> THEN [err |-> TRUE, msg |-> m1]
            ELSE IF Len(rightParts) < 3 THEN [err |-> TRUE, msg |-> m1]
            ELSE
            LET m2 == [m1 EXCEPT !.module = TrimSpace(rightParts[1]),
                                 !.function = TrimSpace(rightParts[2])]
                messageRaw == Split(rightParts[3], "-")
            IN  IF Len(messageRaw) < 2 THEN [err |-> TRUE, msg |-> m2]
                ELSE
                LET lineNum == ParseInt(TrimSpace(messageRaw[1]))
                    m3 == [m2 EXCEPT !.lineNumber = lineNum.val,
                                     !.message = TrimSpace(messageRaw[2])]
                IN  [err |-> lineNum.err, msg |-> m3]

----------------------------------------------------------------------------
(* time.Parse(layout, value) and the comparisons of time.Time. *)

IsDigit(c) == DigitVal(c) < 10

Num(s, a, b) == DigitsValue(SubSeq(s, a, b), 10)

\* days of a month, as time.Parse checks the day against them
DaysIn(year, month) ==
    IF month = 2
    THEN IF year % 4 = 0 /\ (year % 100 # 0 \/ year % 400 = 0) THEN 29 ELSE 28
    ELSE IF month \in {4, 6, 9, 11} THEN 30 ELSE 31

\* fractional digits d1..dk read as nanoseconds (right-padded to 9 digits)
RECURSIVE Nanos(_, _)
Nanos(frac, width) ==
    IF width = 0 THEN 0
    ELSE (IF frac = <<>> THEN 0 ELSE DigitVal(frac[1]) * (10 ^ (width - 1)))
         + Nanos(IF frac = <<>> THEN <<>> ELSE Tail(frac), width - 1)

\* time.Parse with the layout "2006-01-02 15:04:05.999" on values written
\* with zero-padded fields: "YYYY-MM-DD hh:mm:ss" and an optional fraction
\* of 1 to 9 digits.  Any other value is a parse error here.
TimeParse(value) ==
    LET n == Len(value)
        shape == /\ n >= 19
                 /\ \A i \in {1, 2, 3, 4, 6, 7, 9, 10, 12, 13, 15, 16, 18, 19} :
                        IsDigit(value[i])
                 /\ value[5] = "-" /\ value[8] = "-" /\ value[11] = " "
                 /\ value[14] = ":" /\ value[17] = ":"
                 /\ \/ n = 19
                    \/ /\ n >= 21 /\ n <= 29 /\ value[20] = "."
                       /\ \A i \in 21..n : IsDigit(value[i])
    IN  IF ~shape THEN [err |-> TRUE, t |-> ZeroTime]
        ELSE
        LET year  == Num(value, 1, 4)
            month == Num(value, 6, 7)
            day   == Num(value, 9, 10)
            hour  == Num(value, 12, 13)
            min   == Num(value, 15, 16)
            sec   == Num(value, 18, 19)
            nsec  == Nanos(SubSeq(value, 21, n), 9)
            inRange == /\ month \in 1..12 /\ day >= 1 /\ day <= DaysIn(year, month)
                       /\ hour < 24 /\ min < 60 /\ sec < 60
        IN  IF inRange
            THEN [err |-> FALSE, t |-> <<year, month, day, hour, min, sec, nsec>>]
            ELSE [err |-> TRUE, t |-> ZeroTime]

RECURSIVE LexLess(_, _)
LexLess(a, b) ==
    IF a = <<>> THEN FALSE
    ELSE a[1] < b[1] \/ (a[1] = b[1] /\ LexLess(Tail(a), Tail(b)))

\* t.Before(u)
Before(t, u) == LexLess(t, u)

\* t.After(u)
After(t, u) == LexLess(u, t)

----------------------------------------------------------------------------
(* The per-file statistics. *)

\* parseLogFile on the bytes of a file that was read: the rows that parse
RECURSIVE ParseRows(_)
ParseRows(logRows) ==
    IF logRows = <<>> THEN <<>>
    ELSE LET parsed == parseLogMessage(logRows[1])
         IN  (IF parsed.err THEN <<>> ELSE <<parsed.msg>>) \o ParseRows(Tail(logRows))

getNumEntries(logMessages) == Len(logMessages)

\* the zero value of LogSeverityFrequency
ZeroSeverity == [debug |-> 0, info |-> 0, warning |-> 0, error |-> 0]

StrDEBUG == <<"D", "E", "B", "U", "G">>
StrINFO == <<"I", "N", "F", "O">>
StrWARNING == <<"W", "A", "R", "N", "I", "N", "G">>
StrERROR == <<"E", "R", "R", "O", "R">>

CountSeverity(logMessages, sev) ==
    Cardinality({i \in 1..Len(logMessages) : logMessages[i].severity = sev})

getLogSeverityFrequency(logMessages) ==
    [debug   |-> CountSeverity(logMessages, StrDEBUG),
     info    |-> CountSeverity(logMessages, StrINFO),
     warning |-> CountSeverity(logMessages, StrWARNING),
     error   |-> CountSeverity(logMessages, StrERROR)]

\* every order in which a range over a map with the keys S can visit them
RECURSIVE Perms(_)
Perms(S) ==
    IF S = {} THEN {<<>>}
    ELSE UNION {{<<x>> \o p : p \in Perms(S \ {x})} : x \in S}

\* the stable sort of messages, descending by ranked: messages[i] goes
\* behind every element of a higher rank and every earlier element of the
\* same rank
StableDescending(messages, ranked) ==
    LET n == Len(messages)
        place(i) == 1 + Cardinality({j \in 1..n :
                        \/ ranked[messages[j]] > ranked[messages[i]]
                        \/ ranked[messages[j]] = ranked[messages[i]] /\ j < i})
    IN  [k \in 1..n |-> messages[CHOOSE i \in 1..n : place(i) = k]]

\* sort.SliceStable(messages, ranked[messages[i]] > ranked[messages[j]]);
\* the slice and the map are bound to their values once
SliceStable(messages, ranked) ==
    CHOOSE sorted \in {StableDescending(m, r) : m \in {messages}, r \in {ranked}} : TRUE

\* the keys of rankedLogMessages in getTopFiveLogMessages
MessageKeys(logMessages) == {logMessages[i].message : i \in 1..Len(logMessages)}

\* getTopFiveLogMessages; mapOrder is the order of "for message := range
\* rankedLogMessages", a permutation of MessageKeys(logMessages)
getTopFiveLogMessages(logMessages, mapOrder) ==
    LET rankedLogMessages ==
            [m \in MessageKeys(logMessages) |->
                Cardinality({i \in 1..Len(logMessages) : logMessages[i].message = m})]
        messages == SliceStable(mapOrder, rankedLogMessages)
        maxMessages == IF Len(messages) >= TopN THEN TopN ELSE Len(messages)
    IN  [messages    |-> [index \in 1..TopN |->
                            IF index <= maxMessages THEN messages[index] ELSE <<>>],
         frequencies |-> [index \in 1..TopN |->
                            IF index <= maxMessages
                            THEN rankedLogMessages[messages[index]] ELSE 0]]

\* getStartTime without its length check: logMessages[0] of an empty list is
\* an index out of range, a panic
getStartTimeUnguarded(logMessages) ==
    IF Len(logMessages) = 0 THEN [panic |-> TRUE, t |-> ZeroTime]
    ELSE LET p == TimeParse(logMessages[1].timestamp)
         IN  [panic |-> p.err, t |-> p.t]

\* getStartTime: the parse of the first record's timestamp; panics on an error
getStartTime(logMessages) ==
    IF Len(logMessages) = 0 THEN [panic |-> FALSE, t |-> ZeroTime]
    ELSE LET p == TimeParse(logMessages[1].timestamp)
         IN  [panic |-> p.err, t |-> p.t]

\* getEndTime: the parse of the last record's timestamp; panics on an error
getEndTime(logMessages) ==
    IF Len(logMessages) = 0 THEN [panic |-> FALSE, t |-> ZeroTime]
    ELSE LET p == TimeParse(logMessages[Len(logMessages)].timestamp)
         IN  [panic |-> p.err, t |-> p.t]

\* the zero value of LogAnalysis
ZeroLogAnalysis ==
    [numEntries |-> 0, logSeverityFrequency |-> ZeroSeverity,
     topFiveLogMessages |-> <<>>, topFiveLogMessageFrequencies |-> <<>>,
     startTime |-> ZeroTime, endTime |-> ZeroTime]

\* the body of analyzeLogFile up to the send, on the records of its file;
\* panic is the panic of getStartTime or getEndTime
analyzeRecords(logMessages, mapOrder) ==
    LET top   == getTopFiveLogMessages(logMessages, mapOrder)
        start == getStartTime(logMessages)
        end   == getEndTime(logMessages)
    IN  [panic |-> start.panic \/ end.panic,
         logAnalysis |->
            [numEntries |-> getNumEntries(logMessages),
             logSeverityFrequency |-> getLogSeverityFrequency(logMessages),
             topFiveLogMessages |-> top.messages,
             topFiveLogMessageFrequencies |-> top.frequencies,
             startTime |-> start.t,
             endTime |-> end.t]]

----------------------------------------------------------------------------
(* The cross-file reduction. *)

\* the (message, frequency) slots that analyzeTopFiveLogMessages adds into
\* rankedLogMessages, in the order of its two loops
RECURSIVE TopSlots(_)
TopSlots(analyses) ==
    IF analyses = <<>> THEN <<>>
    ELSE LET logAnalysis == analyses[1]
             maxMessages == IF Len(logAnalysis.topFiveLogMessages) >= TopN
                            THEN TopN ELSE Len(logAnalysis.topFiveLogMessages)
         IN  [index \in 1..maxMessages |->
                [message   |-> logAnalysis.topFiveLogMessages[index],
                 frequency |-> logAnalysis.topFiveLogMessageFrequencies[index]]]
             \o TopSlots(Tail(analyses))

\* rankedLogMessages[message] after the first n slots were added
RECURSIVE SumFrequencyTo(_, _, _)
SumFrequencyTo(slots, message, n) ==
    IF n = 0 THEN 0
    ELSE SumFrequencyTo(slots, message, n - 1)
         + (IF slots[n].message = message THEN slots[n].frequency ELSE 0)

SumFrequency(slots, message) == SumFrequencyTo(slots, message, Len(slots))

\* the keys of rankedLogMessages in analyzeTopFiveLogMessages
GlobalKeys(analyses) ==
    {TopSlots(analyses)[i].message : i \in 1..Len(TopSlots(analyses))}

\* the first 5 elements of a slice, or all of them if it has fewer: the
\* "maxMessages" loops
FirstFive(messages) ==
    LET maxMessages == IF Len(messages) >= TopN THEN TopN ELSE Len(messages)
    IN  [index \in 1..maxMessages |-> messages[index]]

\* analyzeTopFiveLogMessages from the slots it adds up: the map, the sort
\* of its keys taken in mapOrder, and the cut to 5
RankSlots(slots, mapOrder) ==
    LET keys == {slots[i].message : i \in 1..Len(slots)}
        rankedLogMessages == [m \in keys |-> SumFrequency(slots, m)]
    IN  CHOOSE top \in {FirstFive(messages) :
                           messages \in {SliceStable(mapOrder, rankedLogMessages)}} : TRUE

\* analyzeTopFiveLogMessages; mapOrder is the order of "for message := range
\* rankedLogMessages", a permutation of GlobalKeys(analyses)
analyzeTopFiveLogMessages(analyses, mapOrder) ==
    CHOOSE top \in {RankSlots(slots, mapOrder) : slots \in {TopSlots(analyses)}} : TRUE

RECURSIVE SumTo(_, _)
SumTo(s, n) == IF n = 0 THEN 0 ELSE SumTo(s, n - 1) + s[n]

SumSeq(s) == SumTo(s, Len(s))

\* the loop of analyzelogAnalyses on finalLogAnalysis.startTime
RECURSIVE FoldStartTime(_, _)
FoldStartTime(startTime, analyses) ==
    IF analyses = <<>> THEN startTime
    ELSE FoldStartTime(IF After(startTime, analyses[1].startTime)
                       THEN analyses[1].startTime ELSE startTime,
                       Tail(analyses))

\* the loop of analyzelogAnalyses on finalLogAnalysis.endTime
RECURSIVE FoldEndTime(_, _)
FoldEndTime(endTime, analyses) ==
    IF analyses = <<>> THEN endTime
    ELSE FoldEndTime(IF Before(endTime, analyses[1].endTime)
                     THEN analyses[1].endTime ELSE endTime,
                     Tail(analyses))

\* the loop of analyzelogAnalyses on one severity count, from the count init
FoldSeverity(init, analyses, sev) ==
    init + SumSeq([i \in 1..Len(analyses) |-> analyses[i].logSeverityFrequency[sev]])

\* the loop of analyzelogAnalyses on finalLogAnalysis.numEntries, from init
FoldEntries(init, analyses) ==
    init + SumSeq([i \in 1..Len(analyses) |-> analyses[i].numEntries])

\* analyzelogAnalyses after its call of analyzeTopFiveLogMessages, with the
\* accumulator initialised to the whole first summary, which the loop then
\* adds a second time
ReduceFirstTwice(analyses, topFiveLogMessages) ==
    [numEntries |-> FoldEntries(analyses[1].numEntries, analyses),
     logSeverityFrequency |->
        [debug   |-> FoldSeverity(analyses[1].logSeverityFrequency.debug, analyses, "debug"),
         info    |-> FoldSeverity(analyses[1].logSeverityFrequency.info, analyses, "info"),
         warning |-> FoldSeverity(analyses[1].logSeverityFrequency.warning, analyses, "warning"),
         error   |-> FoldSeverity(analyses[1].logSeverityFrequency.error, analyses, "error")],
     topFiveLogMessages |-> FirstFive(topFiveLogMessages),
     topFiveLogMessageFrequencies |-> <<>>,
     startTime |-> FoldStartTime(analyses[1].startTime, analyses),
     endTime |-> FoldEndTime(analyses[1].endTime, analyses)]

\* analyzelogAnalyses after its call of analyzeTopFiveLogMessages: the times
\* start from the first summary, the counts from zero, the messages are
\* copied, and the frequencies stay nil
ReduceWith(analyses, topFiveLogMessages) ==
    [numEntries |-> FoldEntries(0, analyses),
     logSeverityFrequency |->
        [debug   |-> FoldSeverity(0, analyses, "debug"),
         info    |-> FoldSeverity(0, analyses, "info"),
         warning |-> FoldSeverity(0, analyses, "warning"),
         error   |-> FoldSeverity(0, analyses, "error")],
     topFiveLogMessages |-> FirstFive(topFiveLogMessages),
     topFiveLogMessageFrequencies |-> <<>>,
     startTime |-> FoldStartTime(analyses[1].startTime, analyses),
     endTime |-> FoldEndTime(analyses[1].endTime, analyses)]

\* analyzelogAnalyses on a non-empty list (it panics on the empty one)
analyzelogAnalyses(analyses, mapOrder) ==
    CHOOSE final \in {ReduceWith(analyses, top) :
                         top \in {analyzeTopFiveLogMessages(analyses, mapOrder)}} : TRUE

----------------------------------------------------------------------------
(* The files of the model: the rows of the tests, and the files that yield *)
(* no record.                                                              *)

Ts0000 ==
    <<"2", "0", "2", "4", "-", "0", "1", "-", "0", "1", " ", "0", "0", ":",
      "0", "0", ":", "0", "0", ".", "0", "0", "0">>

Ts0001 ==
    <<"2", "0", "2", "4", "-", "0", "1", "-", "0", "1", " ", "0", "0", ":",
      "0", "1", ":", "0", "0", ".", "0", "0", "0">>

Ts0002 ==
    <<"2", "0", "2", "4", "-", "0", "1", "-", "0", "1", " ", "0", "0", ":",
      "0", "2", ":", "0", "0", ".", "0", "0", "0">>

Ts0003 ==
    <<"2", "0", "2", "4", "-", "0", "1", "-", "0", "1", " ", "0", "0", ":",
      "0", "3", ":", "0", "0", ".", "0", "0", "0">>

Ts0004 ==
    <<"2", "0", "2", "4", "-", "0", "1", "-", "0", "1", " ", "0", "0", ":",
      "0", "4", ":", "0", "0", ".", "0", "0", "0">>

TsBad == <<"y", "e", "s", "t", "e", "r", "d", "a", "y">>

StrTRACE == <<"T", "R", "A", "C", "E">>

StrModule == <<"a", "p", "p", ".", "m", "o", "d", "u", "l", "e">>

StrFunction == <<"f", "u", "n", "c", "t", "i", "o", "n">>

MsgLogin ==
    <<"U", "s", "e", "r", " ", "l", "o", "g", "g", "e", "d", " ", "i", "n">>

MsgDbError ==
    <<"D", "a", "t", "a", "b", "a", "s", "e", " ", "e", "r", "r", "o", "r">>

MsgLowMem == <<"L", "o", "w", " ", "m", "e", "m", "o", "r", "y">>

MsgJunk ==
    <<"n", "o", "t", " ", "a", " ", "l", "o", "g", " ", "l", "i", "n", "e">>

MsgError1 == <<"E", "r", "r", "o", "r", " ", "1">>

MsgError2 == <<"E", "r", "r", "o", "r", " ", "2">>

MsgError3 == <<"E", "r", "r", "o", "r", " ", "3">>

MsgError4 == <<"E", "r", "r", "o", "r", " ", "4">>

MsgError5 == <<"E", "r", "r", "o", "r", " ", "5">>

MsgError6 == <<"E", "r", "r", "o", "r", " ", "6">>

\* one row in the format of the tests:
\* "<timestamp> | <severity> | app.module: function: <line> - <message>"
LogRow(timestamp, severity, lineNumber, message) ==
    timestamp \o <<" ", "|", " ">> \o severity \o <<" ", "|", " ">>
    \o StrModule \o <<":", " ">> \o StrFunction \o <<":", " ">>
    \o lineNumber \o <<" ", "-", " ">> \o message

\* the rows of a file joined by "\n"
RECURSIVE JoinRows(_)
JoinRows(rows) ==
    IF rows = <<>> THEN <<>>
    ELSE IF Len(rows) = 1 THEN rows[1]
    ELSE rows[1] \o <<"\n">> \o JoinRows(Tail(rows))

\* log1Content of TestAnalyzeLogFiles
Log1Content ==
    JoinRows(<<LogRow(Ts0000, StrINFO, <<"1", "2", "3">>, MsgLogin),
               LogRow(Ts0001, StrERROR, <<"1", "2", "4">>, MsgDbError)>>)

\* log2Content of TestAnalyzeLogFiles
Log2Content ==
    JoinRows(<<LogRow(Ts0002, StrWARNING, <<"1", "2", "5">>, MsgLowMem),
               LogRow(Ts0003, StrERROR, <<"1", "2", "6">>, MsgDbError)>>)

\* a DEBUG row with an empty message, a row of an unrecognised severity,
\* and the empty row after the last "\n"
Log3Content ==
    JoinRows(<<LogRow(Ts0004, StrDEBUG, <<"7">>, <<>>),
               LogRow(Ts0004, StrTRACE, <<"8">>, MsgLowMem),
               <<>>>>)

\* rows that parseLogMessage rejects: no "|", no severity, no line number
JunkContent ==
    JoinRows(<<MsgJunk,
               LogRow(Ts0000, <<>>, <<"1", "2", "3">>, MsgLogin),
               LogRow(Ts0000, StrINFO, <<>>, MsgLogin)>>)

\* a row whose timestamp time.Parse rejects
BadTsContent == LogRow(TsBad, StrDEBUG, <<"1">>, MsgLogin)

Paths == {"log1.log", "log2.log", "log3.log", "empty.log", "junk.log",
          "missing.log", "badts.log"}

\* os.ReadFile: "missing.log" does not exist
ReadFile(logPath) ==
    CASE logPath = "log1.log"  -> [err |-> FALSE, data |-> Log1Content]
      [] logPath = "log2.log"  -> [err |-> FALSE, data |-> Log2Content]
      [] logPath = "log3.log"  -> [err |-> FALSE, data |-> Log3Content]
      [] logPath = "empty.log" -> [err |-> FALSE, data |-> <<>>]
      [] logPath = "junk.log"  -> [err |-> FALSE, data |-> JunkContent]
      [] logPath = "badts.log" -> [err |-> FALSE, data |-> BadTsContent]
      [] OTHER                 -> [err |-> TRUE, data |-> <<>>]

\* parseLogFile
parseLogFile(logPath) ==
    LET file == ReadFile(logPath)
    IN  IF file.err THEN <<>> ELSE ParseRows(Split(file.data, "\n"))

\* analyzeLogFile up to the send on the channel
analyzeLogFile(logPath, mapOrder) == analyzeRecords(parseLogFile(logPath), mapOrder)

\* every LogAnalysis that analyzeLogFile(logPath, ...) can send, and whether
\* it panics instead, over the orders of the map range
FileOutcomes ==
    [logPath \in Paths |->
        {analyzeLogFile(logPath, mapOrder) :
            mapOrder \in Perms(MessageKeys(parseLogFile(logPath)))}]

\* the sequences over S of a length from 0 to n
SeqsUpTo(S, n) == UNION {[1..k -> S] : k \in 0..n}

----------------------------------------------------------------------------
(* analyzeLogFiles and its goroutines. *)

\* no direct call of a single function is in progress
NoCall == callPc = "none" /\ callArg = <<>> /\ callRet = <<>>

\* the state on entry of analyzeLogFiles(paths): a fresh channel and list
Enter(paths) ==
    /\ logPaths = paths
    /\ pcMain = "launch"
    /\ spawned = 0
    /\ received = 0
    /\ logAnalyses = <<>>
    /\ chanClosed = FALSE
    /\ pcTask = [i \in 1..Len(paths) |-> "idle"]
    /\ summary = [i \in 1..Len(paths) |-> ZeroLogAnalysis]
    /\ rangeOrder = <<>>
    /\ result = ZeroLogAnalysis

Init ==
    /\ \E paths \in SeqsUpTo(Paths, MaxFiles) : Enter(paths)
    /\ waitGroup = 0
    /\ run = 1
    /\ firstResult = ZeroLogAnalysis
    /\ NoCall

Tasks == 1..Len(logPaths)

\* the process has not died of a panic
Alive == pcMain # "crashed"

\* number of iterations of "for range logPaths"
ReceiveCount(paths) == Len(paths)

\* a launch loop that does not call waitGroup.Add
AddCounterForgotten(counter) == counter

\* waitGroup.Add(1)
AddCounter(counter) == counter + 1

\* waitGroup.Done()
DoneCounter(counter) == counter - 1

\* a Wait that returns at once
WaitReturnsAtOnce(counter) == TRUE

\* the condition on which waitGroup.Wait() returns
WaitReturns(counter) == counter = 0

\* one iteration of the launch loop: waitGroup.Add(1); go analyzeLogFile(...)
Launch ==
    /\ pcMain = "launch"
    /\ spawned < Len(logPaths)
    /\ waitGroup' = AddCounter(waitGroup)
    /\ pcTask' = [pcTask EXCEPT ![spawned + 1] = "run"]
    /\ spawned' = spawned + 1
    /\ UNCHANGED <<logPaths, pcMain, received, logAnalyses, chanClosed, summary,
                   result, run, firstResult, rangeOrder, callVars>>

\* the launch loop ends
LaunchEnd ==
    /\ pcMain = "launch"
    /\ spawned = Len(logPaths)
    /\ pcMain' = "receive"
    /\ UNCHANGED <<logPaths, spawned, received, logAnalyses, chanClosed, waitGroup,
                   pcTask, summary, result, run, firstResult, rangeOrder, callVars>>

\* analyzeLogFile from its start to the send: it computes its summary
Analyze(t) ==
    /\ Alive
    /\ pcTask[t] = "run"
    /\ \E a \in FileOutcomes[logPaths[t]] :
          /\ ~a.panic
          /\ summary' = [summary EXCEPT ![t] = a.logAnalysis]
    /\ pcTask' = [pcTask EXCEPT ![t] = "send"]
    /\ UNCHANGED <<logPaths, pcMain, spawned, received, logAnalyses, chanClosed,
                   waitGroup, result, run, firstResult, rangeOrder, callVars>>

\* getStartTime or getEndTime panics in a goroutine: the process dies
TaskPanic(t) ==
    /\ Alive
    /\ pcTask[t] = "run"
    /\ \E a \in FileOutcomes[logPaths[t]] : a.panic
    /\ pcMain' = "crashed"
    /\ UNCHANGED <<logPaths, spawned, received, logAnalyses, chanClosed, waitGroup,
                   pcTask, summary, result, run, firstResult, rangeOrder, callVars>>

\* the rendezvous on the unbuffered channel: "logAnalysisChan <- logAnalysis"
\* of goroutine t meets "logAnalysis := <- logAnalysisChan" of the receive
\* loop, which appends the value
Deliver(t) ==
    /\ Alive
    /\ pcTask[t] = "send"
    /\ pcMain = "receive"
    /\ received < ReceiveCount(logPaths)
    /\ logAnalyses' = Append(logAnalyses, summary[t])
    /\ received' = received + 1
    /\ pcTask' = [pcTask EXCEPT ![t] = "sent"]
    /\ UNCHANGED <<logPaths, pcMain, spawned, chanClosed, waitGroup, summary,
                   result, run, firstResult, rangeOrder, callVars>>

\* the receive loop ends
ReceiveEnd ==
    /\ pcMain = "receive"
    /\ received = ReceiveCount(logPaths)
    /\ pcMain' = "wait"
    /\ UNCHANGED <<logPaths, spawned, received, logAnalyses, chanClosed, waitGroup,
                   pcTask, summary, result, run, firstResult, rangeOrder, callVars>>

\* waitGroup.Done() of goroutine t, which then returns
TaskDone(t) ==
    /\ Alive
    /\ pcTask[t] = "sent"
    /\ waitGroup' = DoneCounter(waitGroup)
    /\ pcTask' = [pcTask EXCEPT ![t] = "exit"]
    /\ UNCHANGED <<logPaths, pcMain, spawned, received, logAnalyses, chanClosed,
                   summary, result, run, firstResult, rangeOrder, callVars>>

\* waitGroup.Wait() returns
Wait ==
    /\ pcMain = "wait"
    /\ WaitReturns(waitGroup)
    /\ pcMain' = "close"
    /\ UNCHANGED <<logPaths, spawned, received, logAnalyses, chanClosed, waitGroup,
                   pcTask, summary, result, run, firstResult, rangeOrder, callVars>>

\* close(logAnalysisChan)
Close ==
    /\ pcMain = "close"
    /\ chanClosed' = TRUE
    /\ pcMain' = "reduce"
    /\ UNCHANGED <<logPaths, spawned, received, logAnalyses, waitGroup, pcTask,
                   summary, result, run, firstResult, rangeOrder, callVars>>

\* analyzelogAnalyses is called on a non-empty list, and the range over
\* rankedLogMessages in analyzeTopFiveLogMessages takes one of its orders
RangeMap ==
    /\ pcMain = "reduce"
    /\ Len(logAnalyses) # 0
    /\ \E keys \in {GlobalKeys(logAnalyses)} : rangeOrder' \in Perms(keys)
    /\ pcMain' = "rank"
    /\ UNCHANGED <<logPaths, spawned, received, logAnalyses, chanClosed, waitGroup,
                   pcTask, summary, result, run, firstResult, callVars>>

\* logAnalysis = analyzelogAnalyses(logAnalyses); return
Reduce ==
    /\ pcMain = "rank"
    /\ result' = analyzelogAnalyses(logAnalyses, rangeOrder)
    /\ pcMain' = "done"
    /\ UNCHANGED <<logPaths, spawned, received, logAnalyses, chanClosed, waitGroup,
                   pcTask, summary, rangeOrder, run, firstResult, callVars>>

\* analyzelogAnalyses panics with "No analysis found"
ReducePanic ==
    /\ pcMain = "reduce"
    /\ Len(logAnalyses) = 0
    /\ pcMain' = "crashed"
    /\ UNCHANGED <<logPaths, spawned, received, logAnalyses, chanClosed, waitGroup,
                   pcTask, summary, result, run, firstResult, rangeOrder, callVars>>

MainStep ==
    \/ Launch \/ LaunchEnd \/ ReceiveEnd \/ Wait \/ Close
    \/ RangeMap \/ Reduce \/ ReducePanic

TaskStep(t) == Analyze(t) \/ TaskPanic(t) \/ Deliver(t) \/ TaskDone(t)

Next == MainStep \/ \E t \in Tasks : TaskStep(t)

Spec == Init /\ [][Next]_vars

\* the paths of the runs checked for termination: a file with records, a
\* file that cannot be read, and a file with a fatal timestamp
FairPaths == {"log1.log", "missing.log", "badts.log"}

InitFair ==
    /\ \E paths \in SeqsUpTo(FairPaths, MaxFiles) : Enter(paths)
    /\ waitGroup = 0
    /\ run = 1
    /\ firstResult = ZeroLogAnalysis
    /\ NoCall

\* the Go scheduler runs every goroutine that can take a step
FairSpec ==
    /\ InitFair
    /\ [][Next]_vars
    /\ WF_vars(MainStep)
    /\ \A t \in 1..MaxFiles : WF_vars(t \in Tasks /\ TaskStep(t))

----------------------------------------------------------------------------
(* analyzeLogFiles called again on the same paths (as a test binary that   *)
(* runs it more than once does): the package-level waitGroup is the same   *)
(* object, everything else is created anew.                                *)

Rerun ==
    /\ pcMain = "done"
    /\ run < MaxRuns
    /\ run' = run + 1
    /\ firstResult' = IF run = 1 THEN result ELSE firstResult
    /\ pcMain' = "launch"
    /\ spawned' = 0
    /\ received' = 0
    /\ logAnalyses' = <<>>
    /\ chanClosed' = FALSE
    /\ pcTask' = [i \in 1..Len(logPaths) |-> "idle"]
    /\ summary' = [i \in 1..Len(logPaths) |-> ZeroLogAnalysis]
    /\ rangeOrder' = <<>>
    /\ result' = ZeroLogAnalysis
    /\ UNCHANGED <<logPaths, waitGroup, callVars>>

NextTwice == Next \/ Rerun

SpecTwice == Init /\ [][NextTwice]_vars

----------------------------------------------------------------------------
(* Direct calls of parseLogMessage and of getTopFiveLogMessages, as the    *)
(* unit tests make them.                                                   *)

\* analyzeLogFiles is not running
NoDispatch ==
    /\ logPaths = <<>>
    /\ pcMain = "none"
    /\ spawned = 0
    /\ received = 0
    /\ logAnalyses = <<>>
    /\ chanClosed = FALSE
    /\ waitGroup = 0
    /\ pcTask = <<>>
    /\ summary = <<>>
    /\ rangeOrder = <<>>
    /\ result = ZeroLogAnalysis
    /\ run = 1
    /\ firstResult = ZeroLogAnalysis

\* the characters of the message texts drawn for parseLogMessage
MsgAlphabet == {"a", " ", "-", ":"}

\* a row of the grammar up to its message
RowPrefix == LogRow(Ts0000, StrINFO, <<"1", "2", "3">>, <<>>)

\* the rows of the grammar with every message text over MsgAlphabet
GrammarRows == {RowPrefix \o message : message \in SeqsUpTo(MsgAlphabet, MaxMsgLen)}

\* the rows of TestParseLogMessage that must fail
RejectedRows ==
    {<<>>,
     LogRow(Ts0000, <<>>, <<"1", "2", "3">>, MsgLogin),
     LogRow(Ts0000, StrINFO, <<>>, MsgLogin)}

InitParse ==
    /\ NoDispatch
    /\ callPc = "call"
    /\ callArg \in GrammarRows \cup RejectedRows
    /\ callRet = <<>>

ParseCall ==
    /\ callPc = "call"
    /\ callRet' = parseLogMessage(callArg)
    /\ callPc' = "returned"
    /\ UNCHANGED <<callArg, dispatchVars>>

SpecParse == InitParse /\ [][ParseCall]_vars

\* the messages of the record lists drawn for getTopFiveLogMessages
TopMessages == {MsgError1, MsgError2, MsgError3}

\* a LogMessage of which only the message is set, as in the tests
MessageOnly(message) == [ZeroLogMessage EXCEPT !.message = message]

\* testLogs of TestGetTopFiveLogMessages
TestLogs ==
    <<MessageOnly(MsgError1), MessageOnly(MsgError1), MessageOnly(MsgError2),
      MessageOnly(MsgError3), MessageOnly(MsgError3), MessageOnly(MsgError3),
      MessageOnly(MsgError4), MessageOnly(MsgError5), MessageOnly(MsgError6)>>

RecordLists ==
    {[i \in DOMAIN texts |-> MessageOnly(texts[i])] :
        texts \in SeqsUpTo(TopMessages, MaxRecords)} \cup {TestLogs}

InitTop ==
    /\ NoDispatch
    /\ callPc = "call"
    /\ callArg \in RecordLists
    /\ callRet = <<>>

TopFiveCall ==
    /\ callPc = "call"
    /\ \E mapOrder \in Perms(MessageKeys(callArg)) :
          callRet' = getTopFiveLogMessages(callArg, mapOrder)
    /\ callPc' = "returned"
    /\ UNCHANGED <<callArg, dispatchVars>>

SpecTop == InitTop /\ [][TopFiveCall]_vars

----------------------------------------------------------------------------
(* Properties. *)

\* the records of every file
FileRecords == [logPath \in Paths |-> parseLogFile(logPath)]

\* the records of the file of goroutine t
RecordsOf(t) == FileRecords[logPaths[t]]

\* the paths of the files with a first or last record whose timestamp
\* time.Parse rejects
FatalPaths ==
    {logPath \in Paths :
        LET records == FileRecords[logPath]
        IN  /\ records # <<>>
            /\ \/ TimeParse(records[1].timestamp).err
               \/ TimeParse(records[Len(records)].timestamp).err}

HasBadTimestamp(logPath) == logPath \in FatalPaths

\* goroutine t has computed its summary
Computed(t) == pcTask[t] \in {"send", "sent", "exit"}

\* the reducer is being called or has returned
Reducing == pcMain \in {"reduce", "rank", "done"} /\ Len(logPaths) > 0

\* C2: analyzeLogFiles calls the reducer only after every launched goroutine
\* has delivered its summary and called Done, and the list it hands over
\* then holds exactly one summary per path: the summaries of the goroutines,
\* each once, in some order.
C2_ReduceAfterAllDone ==
    Reducing =>
        /\ \A t \in Tasks : pcTask[t] = "exit"
        /\ Len(logAnalyses) = Len(logPaths)
        /\ \E p \in Perms(Tasks) : \A i \in Tasks : logAnalyses[i] = summary[p[i]]

C2_Witness ==
    /\ pcMain = "reduce"
    /\ Len(logPaths) >= 2
    /\ summary[1] # summary[2]

\* C6: the reducer's entry count is the sum of the per-file entry counts and
\* each of its four severity counts the sum of the per-file counts; the
\* entry count returned by analyzeLogFiles is the number of rows that
\* parseLogMessage accepted over all files.
C6_CountsAreSums ==
    pcMain = "done" =>
        /\ result.numEntries =
              SumSeq([i \in 1..Len(logAnalyses) |-> logAnalyses[i].numEntries])
        /\ \A sev \in {"debug", "info", "warning", "error"} :
              result.logSeverityFrequency[sev] =
                 SumSeq([i \in 1..Len(logAnalyses) |->
                            logAnalyses[i].logSeverityFrequency[sev]])
        /\ result.numEntries = SumSeq([t \in Tasks |-> Len(RecordsOf(t))])

C6_Witness ==
    /\ pcMain = "done"
    /\ Len(logPaths) >= 2
    /\ \A i \in 1..Len(logAnalyses) : logAnalyses[i].numEntries > 0
    /\ result.logSeverityFrequency.error >= 2

\* the summary of a file without a record: 5 placeholder slots, zero counts,
\* zero-value times
EmptyFileAnalysis ==
    [numEntries |-> 0, logSeverityFrequency |-> ZeroSeverity,
     topFiveLogMessages |-> [i \in 1..TopN |-> <<>>],
     topFiveLogMessageFrequencies |-> [i \in 1..TopN |-> 0],
     startTime |-> ZeroTime, endTime |-> ZeroTime]

\* C7: a goroutine whose file yields no record (unreadable, empty, or no
\* row that parses) computes the empty summary and delivers it exactly
\* once; the other goroutines compute a summary of their own file; and the
\* process does not die unless the list of paths is empty or some file has
\* a timestamp that cannot be parsed.
C7_NoRecordFileGivesEmptySummary ==
    /\ \A t \in Tasks :
          (Computed(t) /\ RecordsOf(t) = <<>>) => summary[t] = EmptyFileAnalysis
    /\ \A t \in Tasks :
          Computed(t) =>
             [panic |-> FALSE, logAnalysis |-> summary[t]] \in FileOutcomes[logPaths[t]]
    /\ Reducing =>
          Cardinality({i \in 1..Len(logAnalyses) : logAnalyses[i] = EmptyFileAnalysis})
             = Cardinality({t \in Tasks : RecordsOf(t) = <<>>})
    /\ pcMain = "crashed" =>
          \/ Len(logPaths) = 0
          \/ \E t \in Tasks : HasBadTimestamp(logPaths[t])

C7_Witness ==
    /\ pcMain = "done"
    /\ \E t \in Tasks : logPaths[t] = "missing.log"
    /\ \E t \in Tasks : RecordsOf(t) # <<>>

\* C10: for a non-empty list of paths without a fatal timestamp,
\* analyzeLogFiles returns: every send is received, every goroutine calls
\* Done once and exits (the counter of the WaitGroup is the number of
\* goroutines launched and not yet exited), the counter is never negative
\* and is zero from the return of Wait on, and no goroutine is at or before
\* its send once the channel is closed.
C10_TerminatesWithoutDeadlock ==
    (Len(logPaths) > 0 /\ \A t \in Tasks : ~HasBadTimestamp(logPaths[t])) =>
        /\ <>(pcMain = "done" /\ \A t \in Tasks : pcTask[t] = "exit")
        /\ [](/\ waitGroup >= 0
              /\ pcMain \in {"close", "reduce", "rank", "done"} => waitGroup = 0
              /\ chanClosed => \A t \in Tasks : pcTask[t] \in {"sent", "exit"}
              /\ waitGroup = spawned - Cardinality({t \in Tasks : pcTask[t] = "exit"}))

C10_Witness ==
    /\ pcMain = "done"
    /\ Len(logPaths) >= 2
    /\ waitGroup = 0
    /\ chanClosed
    /\ \A t \in Tasks : pcTask[t] = "exit"

\* C1: the LogAnalysis returned by analyzeLogFiles for a list of paths is the
\* same in every run, whatever the order in which the goroutines deliver
\* their summaries: a second call on the same paths returns what the first
\* call returned.
C1_SameSummaryEveryOrder ==
    (run > 1 /\ pcMain = "done") => result = firstResult

\* the distinct messages of a record list in the order of their first
\* occurrence
FirstSeen(logMessages) ==
    LET firsts == {i \in 1..Len(logMessages) :
                      \A j \in 1..(i - 1) : logMessages[j].message # logMessages[i].message}
    IN  [k \in 1..Cardinality(firsts) |->
            logMessages[CHOOSE i \in firsts :
                            Cardinality({j \in firsts : j <= i}) = k].message]

\* C3: getTopFiveLogMessages returns the distinct messages by descending
\* count, messages of equal count in the order of their first occurrence in
\* the record list, cut to 5, each slot with the count of its message.
C3_RankedByCountThenFirstSeen ==
    callPc = "returned" =>
        callRet = getTopFiveLogMessages(callArg, FirstSeen(callArg))

\* C4: when no parsed record has an empty message, the global list of top
\* messages holds no empty string, and each of its entries has a non-zero
\* frequency in the top-5 list of some file.
C4_PlaceholdersContributeNothing ==
    (/\ pcMain = "done"
     /\ \A t \in Tasks : \A i \in 1..Len(RecordsOf(t)) :
            RecordsOf(t)[i].message # <<>>)
    => \A i \in 1..Len(result.topFiveLogMessages) :
          /\ result.topFiveLogMessages[i] # <<>>
          /\ \E k \in 1..Len(logAnalyses) : \E j \in 1..TopN :
                /\ logAnalyses[k].topFiveLogMessages[j] = result.topFiveLogMessages[i]
                /\ logAnalyses[k].topFiveLogMessageFrequencies[j] > 0

\* C5: the start time of the reduction is the earliest start time of the
\* summaries that have entries, and its end time the latest end time of
\* all summaries.
C5_StartIsMinOfNonEmpty ==
    pcMain = "done" =>
        LET all == 1..Len(logAnalyses)
            nonEmpty == {i \in all : logAnalyses[i].numEntries > 0}
        IN  /\ nonEmpty # {} =>
                /\ \E i \in nonEmpty : result.startTime = logAnalyses[i].startTime
                /\ \A i \in nonEmpty : ~After(result.startTime, logAnalyses[i].startTime)
            /\ \E i \in all : result.endTime = logAnalyses[i].endTime
            /\ \A i \in all : ~Before(result.endTime, logAnalyses[i].endTime)

\* C8: the list handed to the reducer holds the summary of the i-th path at
\* position i, whatever the order in which the goroutines delivered.
C8_ReducedInInputOrder ==
    Reducing => \A i \in Tasks : logAnalyses[i] = summary[i]

\* the message text of a row of GrammarRows, as written
WrittenMessage(logRow) == SubSeq(logRow, Len(RowPrefix) + 1, Len(logRow))

\* C9: a row of the grammar whose message contains "-" or ":" parses, and
\* the message of the record is the whole message text, trimmed.
C9_MessageKeptWhole ==
    (/\ callPc = "returned"
     /\ callArg \in GrammarRows
     /\ Range(WrittenMessage(callArg)) \cap {"-", ":"} # {})
    => /\ ~callRet.err
       /\ callRet.msg.message = TrimSpace(WrittenMessage(callArg))
====
